---------------------------- MODULE Spec2Model ----------------------------
(***************************************************************************)
(* Truncated tensor-algebra arithmetic and the two signature algorithms of *)
(* Sig_transform_PK (tensor_exponential, tensor_alg_mult,                  *)
(* tensor_alg_identity, tensor_algebra_to_vec, compute_signature,          *)
(* SlidingWindowSignature), in exact rational arithmetic.                  *)
(*                                                                         *)
(* A number is a pair <<n, m>> in lowest terms with m > 0 (the rational    *)
(* n/m); the not-a-number sentinel of numpy is the pair <<0, 0>>.  A 1-D   *)
(* array is a sequence of numbers; a tensor-algebra element is a sequence  *)
(* of 1-D arrays, grade k at position k+1.  A path of shape (d, T) is the  *)
(* record [d |-> d, cols |-> <<column 0, ..., column T-1>>].               *)
(***************************************************************************)
EXTENDS Integers, Sequences, FiniteSets, TLC

\* ------------------------------------------------------------------ bounds
MaxD == 2          \* path dimensions 1..MaxD
MaxT == 4          \* path lengths 1..MaxT
MaxLevel == 2      \* truncation levels 0..MaxLevel
MaxCells == 8      \* a path holds at most MaxCells samples-by-channels

\* ------------------------------------------------------- exact arithmetic
Abs(n) == IF n < 0 THEN -n ELSE n

RECURSIVE Gcd(_, _)
Gcd(m, n) == IF n = 0 THEN m ELSE Gcd(n, m % n)

Norm(n, m) ==
    LET g == Gcd(Abs(n), Abs(m))
        s == IF m < 0 THEN -1 ELSE 1
    IN  <<(s * n) \div g, (s * m) \div g>>

Rat(n) == <<n, 1>>
Zero == Rat(0)
One == Rat(1)
NaN == <<0, 0>>

RAdd(p, q) == Norm(p[1] * q[2] + q[1] * p[2], p[2] * q[2])
RSub(p, q) == Norm(p[1] * q[2] - q[1] * p[2], p[2] * q[2])
RMul(p, q) == Norm(p[1] * q[1], p[2] * q[2])
RDivInt(p, i) == Norm(p[1], p[2] * i)

RECURSIVE Pow(_, _)
Pow(d, k) == IF k <= 0 THEN 1 ELSE d * Pow(d, k - 1)

\* a function over 1..n as the sequence of its values
Array(f) == f \o <<>>

\* elementwise array arithmetic on arrays of one shape
VSub(x, y) == Array([j \in 1..Len(x) |-> RSub(x[j], y[j])])
VDivInt(x, i) == Array([j \in 1..Len(x) |-> RDivInt(x[j], i)])
Zeros(n) == Array([j \in 1..n |-> Zero])

\* ------------------------------------------------------ tensor primitives
\* np.outer(x, y).flatten(): entry (i, j) of the outer product at row-major
\* position i * len(y) + j
tensor_outer_product(x, y) ==
    Array([p \in 1..(Len(x) * Len(y)) |->
        RMul(x[((p - 1) \div Len(y)) + 1], y[((p - 1) % Len(y)) + 1])])

\* variant: the loop never divides (grade k = the bare outer power)
RECURSIVE ExpEntryNoDivision(_, _)
ExpEntryNoDivision(x, i) ==
    IF i <= 0 THEN <<One>>
    ELSE tensor_outer_product(ExpEntryNoDivision(x, i - 1), x)

\* variant: the loop divides by i + 1, the divisor of the next pass
RECURSIVE ExpEntryNextDivisor(_, _)
ExpEntryNextDivisor(x, i) ==
    IF i <= 0 THEN <<One>>
    ELSE VDivInt(tensor_outer_product(ExpEntryNextDivisor(x, i - 1), x), i + 1)

\* the value of `entry` after i passes of the loop of tensor_exponential
RECURSIVE ExpEntry(_, _)
ExpEntry(x, i) ==
    IF i <= 0 THEN <<One>>
    ELSE VDivInt(tensor_outer_product(ExpEntry(x, i - 1), x), i)

\* [entry] + [None]*trunc_level, every None overwritten by the loop; a
\* trunc_level below 1 leaves the one-grade list [array([1])]
tensor_exponential(x, trunc_level) ==
    Array([k \in 1..(IF trunc_level < 0 THEN 1 ELSE trunc_level + 1) |-> ExpEntry(x, k - 1)])

\* variant: np.ones in place of np.zeros
tensor_alg_identity_ones(d, trunc_level) ==
    <<<<One>>>> \o [i \in 1..trunc_level |-> Array([j \in 1..Pow(d, i) |-> One])]

\* [array([1])] + [zeros(d**i) for i in range(1, trunc_level+1)]
tensor_alg_identity(d, trunc_level) ==
    <<<<One>>>> \o [i \in 1..trunc_level |-> Zeros(Pow(d, i))]

\* np.hstack(a)
RECURSIVE tensor_algebra_to_vec(_)
tensor_algebra_to_vec(a) ==
    IF a = <<>> THEN <<>> ELSE Head(a) \o tensor_algebra_to_vec(Tail(a))

\* ---------------------------------------------------------- multiplication
\* the array tensor_outer_product(a[i], b[level-i]) of one pass of the inner loop
LevelTerm(a, b, level, i) == tensor_outer_product(a[i + 1], b[level - i + 1])

\* level_sum += v on an array level_sum: numpy adds in place, broadcasting a
\* one-entry v over level_sum
InPlaceAdd(level_sum, v) ==
    Array([j \in 1..Len(level_sum) |->
        RAdd(level_sum[j], IF Len(v) = 1 THEN v[1] ELSE v[j])])

\* level_sum after the passes 0..i of the inner loop; the first pass adds the
\* array to the integer 0, which yields the array itself
RECURSIVE LevelSum(_, _, _, _)
LevelSum(a, b, level, i) ==
    IF i = 0 THEN LevelTerm(a, b, level, 0)
    ELSE InPlaceAdd(LevelSum(a, b, level, i - 1), LevelTerm(a, b, level, i))

\* the exception pass (level, i) raises: b[level-i] past the end of b is an
\* IndexError; an in-place add whose operand neither has the shape of
\* level_sum nor one entry is a ValueError
TermError(a, b, level, i) ==
    IF level - i >= Len(b) THEN "IndexError"
    ELSE IF i > 0 /\ Len(a[i + 1]) * Len(b[level - i + 1])
                        \notin {1, Len(a[1]) * Len(b[level + 1])}
         THEN "ValueError"
         ELSE "none"

\* the first exception of the loops from pass (level, i) on, "none" if they finish
RECURSIVE FirstError(_, _, _, _)
FirstError(a, b, level, i) ==
    IF level > Len(a) - 1 THEN "none"
    ELSE IF i > level THEN FirstError(a, b, level + 1, 0)
    ELSE IF TermError(a, b, level, i) # "none" THEN TermError(a, b, level, i)
    ELSE FirstError(a, b, level, i + 1)

\* the exception a call tensor_alg_mult(a, b) raises, "none" if it returns
MultRaises(a, b) == FirstError(a, b, 1, 0)

\* variant: the inner loop is range(level), so a[level] (x) b[0] is never added
tensor_alg_mult_inner_short(a, b) ==
    <<<<One>>>> \o [level \in 1..(Len(a) - 1) |-> LevelSum(a, b, level, level - 1)]

\* variant: the outer loop is range(1, len(a) - 1), so the last grade is never
\* computed and the list comes back one grade short
tensor_alg_mult_outer_short(a, b) ==
    <<<<One>>>> \o [level \in 1..(Len(a) - 2) |-> LevelSum(a, b, level, level)]

\* the list a call tensor_alg_mult(a, b) returns when it raises nothing
tensor_alg_mult(a, b) ==
    <<<<One>>>> \o [level \in 1..(Len(a) - 1) |-> LevelSum(a, b, level, level)]

\* ------------------------------------------------------------------ paths
Shape(ts) == <<ts.d, Len(ts.cols)>>

\* ts[:, i] with Python's index rule: -T..-1 count from the end
ColOk(ts, i) == -Len(ts.cols) <= i /\ i < Len(ts.cols)
Col(ts, i) == ts.cols[(IF i < 0 THEN i + Len(ts.cols) ELSE i) + 1]

\* ts[:, lo:hi] for 0 <= lo: the columns lo..min(hi, T)-1
Slice(ts, lo, hi) ==
    LET T == Len(ts.cols)
        h == IF hi < 0 THEN (IF T + hi < 0 THEN 0 ELSE T + hi)
             ELSE IF hi > T THEN T ELSE hi
    IN  [d |-> ts.d, cols |-> IF h <= lo THEN <<>> ELSE SubSeq(ts.cols, lo + 1, h)]

\* np.vstack([ts, np.arange(ts.shape[1])])
TimeAugment(ts) ==
    [d |-> ts.d + 1,
     cols |-> [j \in 1..Len(ts.cols) |-> Append(ts.cols[j], Rat(j - 1))]]

\* --------------------------------------------------------- full signature
\* range(1, T): the values t takes in the loop of compute_signature
SigRange(ts) == 1..(Shape(ts)[2] - 1)

\* one pass of the loop: ret = tensor_alg_mult(ret, tensor_exponential(ts[:, t] - ts[:, t-1]))
SigPass(ts, trunc_level, ret, t) ==
    tensor_alg_mult(ret, tensor_exponential(VSub(Col(ts, t), Col(ts, t - 1)), trunc_level))

\* ret after the passes t = 1..n of the loop
RECURSIVE SigFold(_, _, _)
SigFold(ts, trunc_level, n) ==
    IF n <= 0 THEN tensor_alg_identity(Shape(ts)[1], trunc_level)
    ELSE SigPass(ts, trunc_level, SigFold(ts, trunc_level, n - 1), n)

\* if vec: ret = tensor_algebra_to_vec(ret)[1:]
SigResult(ret, vec) == IF vec THEN Tail(tensor_algebra_to_vec(ret)) ELSE ret

compute_signature(ts, trunc_level, vec) ==
    SigResult(SigFold(ts, trunc_level, Cardinality(SigRange(ts))), vec)

\* -------------------------------------------------------- sliding window
\* range(1, ts.shape[1] - window + 1): the values t takes in the loop
SlideRange(ts, window) == 1..(Shape(ts)[2] - window)

\* the four columns a pass of the loop reads, in the order it reads them
SlideReads(t, window) == <<t - 1, t, t + window - 1, t + window - 2>>

\* variant: the leaving increment itself, ts[:, t] - ts[:, t-1], not its inverse
SlideLeftForward(ts, t, trunc_level) ==
    tensor_exponential(VSub(Col(ts, t), Col(ts, t - 1)), trunc_level)

\* a = tensor_exponential(ts[:, t-1] - ts[:, t])
SlideLeft(ts, t, trunc_level) ==
    tensor_exponential(VSub(Col(ts, t - 1), Col(ts, t)), trunc_level)

\* c = tensor_exponential(ts[:, t+window-1] - ts[:, t+window-2])
SlideRight(ts, t, window, trunc_level) ==
    tensor_exponential(VSub(Col(ts, t + window - 1), Col(ts, t + window - 2)), trunc_level)

\* variant: a and c change sides
SlideUpdateSwapped(ts, t, window, trunc_level, window_sig) ==
    tensor_alg_mult(tensor_alg_mult(SlideRight(ts, t, window, trunc_level), window_sig),
                    SlideLeft(ts, t, trunc_level))

\* window_sig = tensor_alg_mult(tensor_alg_mult(a, b), c)
SlideUpdate(ts, t, window, trunc_level, window_sig) ==
    tensor_alg_mult(tensor_alg_mult(SlideLeft(ts, t, trunc_level), window_sig),
                    SlideRight(ts, t, window, trunc_level))

\* variant: `window` rows of padding in place of window - 1
OutputMatrixPadWindow(ret_list, window) ==
    LET width == Len(ret_list[1])
        padded == [j \in 1..window |-> [m \in 1..width |-> NaN]] \o ret_list
    IN  [shape |-> <<width - 1, Len(padded)>>,
         cells |-> [m \in 1..(width - 1) |-> [j \in 1..Len(padded) |-> padded[j][m + 1]]]]

\* np.vstack([nan * ones((window-1, ret.shape[1])), np.vstack(ret_list)])[:, 1:].T
\* as [shape |-> <<rows, columns>>, cells |-> the rows]
OutputMatrix(ret_list, window) ==
    LET width == Len(ret_list[1])
        padded == [j \in 1..(window - 1) |-> [m \in 1..width |-> NaN]] \o ret_list
    IN  [shape |-> <<width - 1, Len(padded)>>,
         cells |-> [m \in 1..(width - 1) |-> [j \in 1..Len(padded) |-> padded[j][m + 1]]]]

\* ------------------------------------------------------------------ state
VARIABLES
    pc,           \* position of the running call
    ts,           \* the path argument (rebound by time_aug)
    window,       \* argument of SlidingWindowSignature
    trunc_level,  \* argument of every call
    time_aug,     \* argument of SlidingWindowSignature
    vec,          \* argument of compute_signature
    t,            \* loop variable
    window_sig,   \* running element of SlidingWindowSignature
    ret_list,     \* rows recorded by SlidingWindowSignature
    ret,          \* running element of compute_signature
    out,          \* the value the call returned
    err,          \* the exception the call raised, "none" if none
    mults,        \* calls of tensor_alg_mult made so far
    exps,         \* calls of tensor_exponential made so far
    d, db, Lb,    \* dimension of a; dimension and level of b
    a, b,         \* the operands of tensor_alg_mult
    x, y          \* the vectors a and b are the exponentials of, if they are

vars == <<pc, ts, window, trunc_level, time_aug, vec, t, window_sig, ret_list,
          ret, out, err, mults, exps, d, db, Lb, a, b, x, y>>

windowVars == <<window, time_aug, window_sig, ret_list>>
sigVars == <<vec, ret>>
algVars == <<d, db, Lb, a, b, x, y>>

\* ----------------------------------------------------------------- inputs
Samples == {Rat(0), Rat(1)}            \* the values a path sample takes
Components == {Rat(-1), Rat(0), Rat(1)} \* the values a vector component takes
Dims == 1..MaxD
Levels == 0..MaxLevel
Windows(T) == 0..(T + 1)

PathsOf(dd, T) == {[d |-> dd, cols |-> c] : c \in [1..T -> [1..dd -> Samples]]}
Paths == UNION {PathsOf(dd, T) : <<dd, T>> \in {s \in Dims \X (1..MaxT) : s[1] * s[2] <= MaxCells}}
Vectors(dd) == [1..dd -> Components]

NoPath == [d |-> 1, cols |-> <<>>]

WindowIdle ==
    /\ window = 0 /\ time_aug = FALSE /\ window_sig = <<>> /\ ret_list = <<>>
SigIdle == vec = FALSE /\ ret = <<>>
AlgIdle ==
    /\ d = 0 /\ db = 0 /\ Lb = 0 /\ a = <<>> /\ b = <<>> /\ x = <<>> /\ y = <<>>

\* ------------------------------------------- SlidingWindowSignature, a call
InitWindow ==
    /\ pc = "call"
    /\ ts \in Paths
    /\ window \in Windows(Shape(ts)[2])
    /\ trunc_level \in Levels
    /\ time_aug \in BOOLEAN
    /\ t = 0 /\ window_sig = <<>> /\ ret_list = <<>>
    /\ out = <<>> /\ err = "none" /\ mults = 0 /\ exps = 0
    /\ SigIdle /\ AlgIdle

\* lines 204-209: the time channel, the first window's signature, the empty list
Begin ==
    /\ pc = "call"
    /\ LET aug == IF time_aug THEN TimeAugment(ts) ELSE ts
           first == Slice(aug, 0, window)
       IN  /\ ts' = aug
           /\ window_sig' = compute_signature(first, trunc_level, FALSE)
           /\ mults' = mults + Cardinality(SigRange(first))
           /\ exps' = exps + Cardinality(SigRange(first))
    /\ ret_list' = <<>>
    /\ t' = 1
    /\ pc' = "loop"
    /\ UNCHANGED <<window, trunc_level, time_aug, out, err>>
    /\ UNCHANGED sigVars /\ UNCHANGED algVars

\* lines 211-218: one pass of the loop that reads four columns in range
Slide ==
    /\ pc = "loop"
    /\ t \in SlideRange(ts, window)
    /\ \A i \in 1..4 : ColOk(ts, SlideReads(t, window)[i])
    /\ ret_list' = Append(ret_list, tensor_algebra_to_vec(window_sig))
    /\ window_sig' = SlideUpdate(ts, t, window, trunc_level, window_sig)
    /\ mults' = mults + 2
    /\ exps' = exps + 2
    /\ t' = t + 1
    /\ UNCHANGED <<pc, ts, window, trunc_level, time_aug, out, err>>
    /\ UNCHANGED sigVars /\ UNCHANGED algVars

\* lines 211-216: a pass of the loop that reads a column out of range
SlideRaises ==
    /\ pc = "loop"
    /\ t \in SlideRange(ts, window)
    /\ \E i \in 1..4 : ~ColOk(ts, SlideReads(t, window)[i])
    /\ ret_list' = Append(ret_list, tensor_algebra_to_vec(window_sig))
    /\ exps' = exps + (IF \A i \in 1..2 : ColOk(ts, SlideReads(t, window)[i]) THEN 1 ELSE 0)
    /\ err' = "IndexError"
    /\ pc' = "raised"
    /\ UNCHANGED <<ts, window, trunc_level, time_aug, t, window_sig, out, mults>>
    /\ UNCHANGED sigVars /\ UNCHANGED algVars

\* lines 220-227: the last row, the padding, the dropped column, the transpose
Finish ==
    /\ pc = "loop"
    /\ t \notin SlideRange(ts, window)
    /\ ret_list' = Append(ret_list, tensor_algebra_to_vec(window_sig))
    /\ IF window - 1 < 0
       THEN /\ err' = "ValueError" /\ pc' = "raised" /\ out' = out
       ELSE /\ out' = OutputMatrix(ret_list', window)
            /\ pc' = "returned" /\ err' = err
    /\ UNCHANGED <<ts, window, trunc_level, time_aug, t, window_sig, mults, exps>>
    /\ UNCHANGED sigVars /\ UNCHANGED algVars

NextWindow == Begin \/ Slide \/ SlideRaises \/ Finish

SpecWindow == InitWindow /\ [][NextWindow]_vars

\* ------------------------------------------------ compute_signature, a call
InitSig ==
    /\ pc = "call"
    /\ ts \in Paths
    /\ trunc_level \in Levels
    /\ vec \in BOOLEAN
    /\ t = 0 /\ ret = <<>>
    /\ out = <<>> /\ err = "none" /\ mults = 0 /\ exps = 0
    /\ WindowIdle /\ AlgIdle

\* lines 176-178: the identity, before the loop
SigBegin ==
    /\ pc = "call"
    /\ ret' = tensor_alg_identity(Shape(ts)[1], trunc_level)
    /\ t' = 1
    /\ pc' = "fold"
    /\ UNCHANGED <<ts, trunc_level, vec, out, err, mults, exps>>
    /\ UNCHANGED windowVars /\ UNCHANGED algVars

\* lines 179-180: one pass of the loop
SigStep ==
    /\ pc = "fold"
    /\ t \in SigRange(ts)
    /\ ret' = SigPass(ts, trunc_level, ret, t)
    /\ mults' = mults + 1
    /\ exps' = exps + 1
    /\ t' = t + 1
    /\ UNCHANGED <<pc, ts, trunc_level, vec, out, err>>
    /\ UNCHANGED windowVars /\ UNCHANGED algVars

\* lines 183-186: the flattening and the return
SigReturn ==
    /\ pc = "fold"
    /\ t \notin SigRange(ts)
    /\ out' = SigResult(ret, vec)
    /\ pc' = "returned"
    /\ UNCHANGED <<ts, trunc_level, vec, t, ret, err, mults, exps>>
    /\ UNCHANGED windowVars /\ UNCHANGED algVars

NextSig == SigBegin \/ SigStep \/ SigReturn

SpecSig == InitSig /\ [][NextSig]_vars

\* ------------------------------- tensor_alg_mult(a, b) on built operands
\* a is built for dimension d and level trunc_level, b for db and Lb
InitAlg ==
    /\ pc = "call"
    /\ d \in Dims /\ trunc_level \in Levels
    /\ db \in Dims /\ Lb \in Levels
    /\ a = <<>> /\ b = <<>> /\ x = <<>> /\ y = <<>>
    /\ out = <<>> /\ err = "none" /\ mults = 0 /\ exps = 0
    /\ ts = NoPath /\ t = 0
    /\ WindowIdle /\ SigIdle

algFixed == <<ts, trunc_level, t, d, db, Lb>>

IdentityA ==
    /\ pc = "call"
    /\ a' = tensor_alg_identity(d, trunc_level)
    /\ pc' = "left"
    /\ UNCHANGED <<b, x, y, out, err, mults, exps>> /\ UNCHANGED algFixed
    /\ UNCHANGED windowVars /\ UNCHANGED sigVars

ExponentialA ==
    /\ pc = "call"
    /\ \E v \in Vectors(d) :
          /\ a' = tensor_exponential(v, trunc_level)
          /\ x' = v
    /\ exps' = exps + 1
    /\ pc' = "left"
    /\ UNCHANGED <<b, y, out, err, mults>> /\ UNCHANGED algFixed
    /\ UNCHANGED windowVars /\ UNCHANGED sigVars

IdentityB ==
    /\ pc = "left"
    /\ b' = tensor_alg_identity(db, Lb)
    /\ pc' = "right"
    /\ UNCHANGED <<a, x, y, out, err, mults, exps>> /\ UNCHANGED algFixed
    /\ UNCHANGED windowVars /\ UNCHANGED sigVars

ExponentialB ==
    /\ pc = "left"
    /\ \E v \in Vectors(db) :
          /\ b' = tensor_exponential(v, Lb)
          /\ y' = v
    /\ exps' = exps + 1
    /\ pc' = "right"
    /\ UNCHANGED <<a, x, out, err, mults>> /\ UNCHANGED algFixed
    /\ UNCHANGED windowVars /\ UNCHANGED sigVars

\* lines 117-126: the product, or the exception of its loops
Mult ==
    /\ pc = "right"
    /\ mults' = mults + 1
    /\ IF MultRaises(a, b) = "none"
       THEN /\ out' = tensor_alg_mult(a, b)
            /\ pc' = "returned" /\ err' = err
       ELSE /\ err' = MultRaises(a, b)
            /\ pc' = "raised" /\ out' = out
    /\ UNCHANGED <<a, b, x, y, exps>> /\ UNCHANGED algFixed
    /\ UNCHANGED windowVars /\ UNCHANGED sigVars

NextAlg == IdentityA \/ ExponentialA \/ IdentityB \/ ExponentialB \/ Mult

SpecAlg == InitAlg /\ [][NextAlg]_vars

\* =================================================================== claims
VNeg(v) == Array([j \in 1..Len(v) |-> RSub(Zero, v[j])])

\* k!
RECURSIVE Fact(_)
Fact(k) == IF k <= 1 THEN 1 ELSE k * Fact(k - 1)

\* d + d^2 + ... + d^L
RECURSIVE SigDim(_, _)
SigDim(dd, L) == IF L <= 0 THEN 0 ELSE Pow(dd, L) + SigDim(dd, L - 1)

\* the product of the components of v that the k base-Len(v) digits of q select
RECURSIVE DigitProduct(_, _, _)
DigitProduct(v, q, k) ==
    IF k = 0 THEN One
    ELSE RMul(v[(q % Len(v)) + 1], DigitProduct(v, q \div Len(v), k - 1))

\* the k-fold outer power of v, flattened row-major
TensorPower(v, k) == Array([p \in 1..Pow(Len(v), k) |-> DigitProduct(v, p - 1, k)])

\* e has L+1 grades, grade 0 is [1], grade k has dd^k entries
WellShaped(e, dd, L) ==
    /\ Len(e) = L + 1
    /\ e[1] = <<One>>
    /\ \A k \in 1..L : Len(e[k + 1]) = Pow(dd, k)

PathD == Shape(ts)[1]
PathT == Shape(ts)[2]
ValidWindow == 2 <= window /\ window <= PathT /\ trunc_level >= 1
InvalidConfiguration == trunc_level < 1 \/ window < 2 \/ window > PathT

\* the window of `window` samples that starts at sample s
WindowAt(s) == Slice(ts, s, s + window)

\* column j (from 0) of the returned matrix
OutColumn(j) == [m \in 1..Len(out.cells) |-> out.cells[m][j + 1]] \o <<>>

\* C1: under a valid configuration, the running signature SlidingWindowSignature
\* holds for the window that starts at sample t-1 (after Begin and after every
\* slide, up to the return) equals compute_signature of that window's samples
\* computed from scratch.
C1_SlidingEquivalence ==
    (pc \in {"loop", "returned"} /\ ValidWindow) =>
        window_sig = compute_signature(WindowAt(t - 1), trunc_level, FALSE)

C1_Witness ==
    /\ pc = "loop" /\ ValidWindow /\ t >= 3
    /\ ~time_aug /\ PathD = 2 /\ trunc_level >= 2
    /\ window_sig # tensor_alg_identity(PathD, trunc_level)

C3_InvalidConfigurationSignalled ==
    InvalidConfiguration => pc # "returned"

\* C4: when the operands of tensor_alg_mult differ in their number of grades or
\* in the length of some grade, the call never returns a product.
C4_ShapeMismatchSignalled ==
    (Len(a) # Len(b) \/ \E k \in 1..Len(a) : Len(a[k]) # Len(b[k])) => pc # "returned"

\* C5: for every vector x and level L >= 1, the product of
\* tensor_exponential(x, L) and tensor_exponential(-x, L) is the identity: grade
\* 0 is [1] and every grade k in 1..L is the zero vector of length d^k.
C5_InverseProperty ==
    (/\ pc = "returned" /\ x # <<>> /\ y # <<>>
     /\ d = db /\ trunc_level = Lb /\ trunc_level >= 1
     /\ y = VNeg(x)) =>
        /\ Len(out) = trunc_level + 1
        /\ out[1] = <<One>>
        /\ \A k \in 1..trunc_level : out[k + 1] = Zeros(Pow(d, k))

C5_Witness ==
    /\ pc = "returned" /\ d = 2 /\ db = 2 /\ trunc_level = 2 /\ Lb = 2
    /\ x = <<Rat(1), Rat(-1)>> /\ y = <<Rat(-1), Rat(1)>>

\* C6: for a path of T >= 3 samples and every interior index k, the element
\* compute_signature returns for the whole path is the product of the
\* signatures of samples 0..k and of samples k..T-1, in that order.
C6_ConcatenationLaw ==
    (pc = "returned" /\ ~vec /\ PathT >= 3) =>
        \A k \in 1..(PathT - 2) :
            out = tensor_alg_mult(compute_signature(Slice(ts, 0, k + 1), trunc_level, FALSE),
                                  compute_signature(Slice(ts, k, PathT), trunc_level, FALSE))

C6_Witness ==
    /\ pc = "returned" /\ ~vec /\ PathT = 4 /\ PathD = 2 /\ trunc_level = 2
    /\ ts.cols = <<<<Rat(0), Rat(0)>>, <<Rat(1), Rat(0)>>, <<Rat(1), Rat(1)>>, <<Rat(0), Rat(1)>>>>

\* C7: tensor_exponential(x, L) has grade 0 equal to [1] and grade k equal to the
\* k-fold flattened outer power of x divided by k!, for k in 1..L; and the
\* signature of the path 0 -> 1 -> 1 at level 2 has grade 1 = 1 and grade 2 = 1/2.
C7_ExponentialSeries ==
    /\ (pc \in {"left", "right", "returned", "raised"} /\ x # <<>>) =>
          /\ a[1] = <<One>>
          /\ \A k \in 1..trunc_level : a[k + 1] = VDivInt(TensorPower(x, k), Fact(k))
    /\ compute_signature([d |-> 1, cols |-> <<<<Rat(0)>>, <<Rat(1)>>, <<Rat(1)>>>>], 2, FALSE)
          = <<<<One>>, <<Rat(1)>>, <<<<1, 2>>>>>>

C7_Witness ==
    /\ pc = "left" /\ trunc_level = 2 /\ x = <<Rat(1), Rat(-1)>>
    /\ a[3] = <<<<1, 2>>, <<-1, 2>>, <<-1, 2>>, <<1, 2>>>>

\* C8: for a path of one sample compute_signature multiplies nothing, raises
\* nothing and returns the identity (grade 0 = [1], grade k = zeros of length
\* d^k) when vec is false, the zero vector of length d + ... + d^L when it is true.
C8_SingleSample ==
    (pc = "returned" /\ PathT = 1) =>
        /\ mults = 0 /\ exps = 0 /\ err = "none"
        /\ ~vec => /\ Len(out) = trunc_level + 1
                   /\ out[1] = <<One>>
                   /\ \A k \in 1..trunc_level : out[k + 1] = Zeros(Pow(PathD, k))
        /\ vec => out = Zeros(SigDim(PathD, trunc_level))

C8_Witness ==
    pc = "returned" /\ PathT = 1 /\ PathD = 2 /\ trunc_level = 2 /\ vec

\* C9: at every step of SlidingWindowSignature the running element, built by
\* tensor_alg_identity, tensor_exponential and tensor_alg_mult alone, has
\* trunc_level+1 grades, grade 0 = [1] and grade k of length d^k; so have the
\* exponentials and the inner product of a slide, whose multiplications raise
\* nothing; and every flattened row has length 1 + d + ... + d^trunc_level.
C9_ShapeInvariant ==
    (pc \in {"loop", "returned", "raised"}) =>
        /\ WellShaped(window_sig, PathD, trunc_level)
        /\ \A r \in 1..Len(ret_list) :
              Len(ret_list[r]) = 1 + SigDim(PathD, trunc_level)
        /\ (pc = "loop" /\ t \in SlideRange(ts, window)
              /\ \A i \in 1..4 : ColOk(ts, SlideReads(t, window)[i])) =>
              /\ WellShaped(SlideLeft(ts, t, trunc_level), PathD, trunc_level)
              /\ WellShaped(SlideRight(ts, t, window, trunc_level), PathD, trunc_level)
              /\ MultRaises(SlideLeft(ts, t, trunc_level), window_sig) = "none"
              /\ WellShaped(tensor_alg_mult(SlideLeft(ts, t, trunc_level), window_sig),
                            PathD, trunc_level)
              /\ MultRaises(tensor_alg_mult(SlideLeft(ts, t, trunc_level), window_sig),
                            SlideRight(ts, t, window, trunc_level)) = "none"

C9_Witness ==
    /\ pc = "loop" /\ t >= 2 /\ ValidWindow /\ PathD = 3 /\ trunc_level = 2
    /\ Len(ret_list) >= 1 /\ Len(ret_list[1]) = 13

\* increment j of the path: sample j minus sample j-1
Inc(j) == VSub(Col(ts, j), Col(ts, j - 1))

\* what one slide does: a step that stays in the loop
C10_SlideStep ==
    (pc = "loop" /\ pc' = "loop") =>
        /\ mults' = mults + 2
        /\ exps' = exps + 2
        /\ t' = t + 1
        /\ window_sig' =
              tensor_alg_mult(
                  tensor_alg_mult(tensor_exponential(VNeg(Inc(t)), trunc_level), window_sig),
                  tensor_exponential(Inc(t + window - 1), trunc_level))

\* C10: every slide (loop step t) makes two more tensor_alg_mult calls and two
\* more tensor_exponential calls, whatever the window, and turns the running
\* signature into multiply(multiply(exponential(-increment t), running),
\* exponential(increment t+window-1)); a valid call has made
\* (window-1) + 2*(T-window) multiplications when it returns.
C10_ConstantWorkPerSlide ==
    /\ [][C10_SlideStep]_vars
    /\ []((pc = "returned" /\ ValidWindow) =>
             mults = (window - 1) + 2 * (PathT - window))

C10_Witness ==
    /\ pc = "returned" /\ ValidWindow /\ window = 2 /\ PathT = 4
    /\ mults = 5 /\ exps = 5 /\ PathD = 2 /\ trunc_level = 2

=============================================================================
